---- MODULE Spec2Model ----
(***************************************************************************)
(* A model of the microlator 6502 core (src/src/cpu.cpp): the machine      *)
(* state, the addressing-mode resolver, the operand handle, the decoder    *)
(* table and the 56 operations, driven by loadProgram, step and reset.     *)
(***************************************************************************)
EXTENDS Integers, Sequences, FiniteSets, TLC

\* ------------------------------------------------------------------------
\* Bounds of the model
\* ------------------------------------------------------------------------
MaxSteps == 5
MaxLoads == 1
MaxResets == 1

\* ------------------------------------------------------------------------
\* Constants of the program
\* ------------------------------------------------------------------------
u8Max == 255
u8Modulo == 256
u16Upper == 65280
u16Modulo == 65536
MEMORY_SIZE_BYTES == 65536
stackTop == 256
initialProgramCounter == 1536
initialStackPointer == 253
initialFlags == 36
indirectJumpBug == TRUE

\* Flags::Index, the bit positions of P
Carry == 0
Zero == 1
InterruptOff == 2
Decimal == 3
Break == 4
Unused == 5
Overflow == 6
Negative == 7

Byte == 0..255

\* ------------------------------------------------------------------------
\* Integer operators of C++ on the values the code applies them to
\* ------------------------------------------------------------------------
RECURSIVE BitAnd(_, _)
BitAnd(a, b) ==
    IF a = 0 \/ b = 0 THEN 0
    ELSE (a % 2) * (b % 2) + 2 * BitAnd(a \div 2, b \div 2)

RECURSIVE BitOr(_, _)
BitOr(a, b) ==
    IF a = 0 THEN b
    ELSE IF b = 0 THEN a
    ELSE (IF a % 2 = 1 \/ b % 2 = 1 THEN 1 ELSE 0)
         + 2 * BitOr(a \div 2, b \div 2)

RECURSIVE BitXor(_, _)
BitXor(a, b) ==
    IF a = 0 THEN b
    ELSE IF b = 0 THEN a
    ELSE ((a + b) % 2) + 2 * BitXor(a \div 2, b \div 2)

\* ~x on a value promoted to int
BitNot(x) == (0 - x) - 1

Pow2(n) == IF n = 0 THEN 1 ELSE IF n = 1 THEN 2 ELSE IF n = 2 THEN 4
           ELSE IF n = 3 THEN 8 ELSE IF n = 4 THEN 16 ELSE IF n = 5 THEN 32
           ELSE IF n = 6 THEN 64 ELSE IF n = 7 THEN 128 ELSE 256

toU8(value) == value % u8Modulo

toU16(value) == value % u16Modulo

setBit(index, value, set) ==
    toU8(BitOr(toU8(value), toU8((IF set THEN 1 ELSE 0) * Pow2(index))))

getBit(index, value) == (toU8(toU8(value) \div Pow2(index)) % 2) = 1

isNegative(value) == getBit(7, value)

sign(value) == IF isNegative(value) THEN 0 - 1 ELSE 1

\* wrapToByte that keeps the ninth bit: the sum leaves the page
wrapToByteKeepsCarry(value) == toU16(value)

wrapToByte(value) == toU8(value % u8Modulo)

\* Flags: bitmask, test, set, get, reset
bitmask(flag) == Pow2(flag)

FlagsTest(p, flag) == getBit(flag, p)

FlagsSet(p, flag, on) ==
    IF on THEN BitOr(p, bitmask(flag))
    ELSE BitAnd(p, toU8(BitNot(bitmask(flag))))

\* ------------------------------------------------------------------------
\* The machine state
\* ------------------------------------------------------------------------
VARIABLES
    accumulator,   \* A
    indexX,        \* X
    indexY,        \* Y
    stack,         \* SP
    pc,            \* PC
    flags,         \* P as a byte
    memory,        \* the 65536-byte array: the non-zero cells, by address
    outOfRange,    \* an index outside 0..65535 was used on memory
    assertFailed,  \* an assert of ValueStore::read/write did not hold
    lastCall,      \* the public operation called last
    ret,           \* what the last step() returned
    thrown,        \* the last loadProgram() threw
    loaded,        \* the arguments of the last loadProgram()
    pre,           \* the machine state when the last operation was called
    trace,         \* the calls made so far, each with the state it left
    steps, loads, resets

machine == <<accumulator, indexX, indexY, stack, pc, flags, memory,
             outOfRange, assertFailed>>

vars == <<accumulator, indexX, indexY, stack, pc, flags, memory,
          outOfRange, assertFailed, lastCall, ret, thrown, loaded, pre,
          trace, steps, loads, resets>>

\* The machine as one value, the 'this' the member functions work on
self == [accumulator |-> accumulator, indexX |-> indexX, indexY |-> indexY,
         stack |-> stack, pc |-> pc, flags |-> flags, memory |-> memory,
         outOfRange |-> outOfRange, assertFailed |-> assertFailed]

\* Memory{}: every byte zero
ZeroMemory == [a \in {} |-> 0]

\* memory[address] for an address inside the array
MemGet(m, address) == IF address \in DOMAIN m THEN m[address] ELSE 0

\* memory[address] = value
MemSet(m, address, value) ==
    IF value = 0
    THEN [a \in DOMAIN m \ {address} |-> m[a]]
    ELSE [a \in DOMAIN m \cup {address} |->
              IF a = address THEN value ELSE m[a]]

read(s, address) == MemGet(s.memory, address)

write(s, address, value) ==
    [s EXCEPT !.memory = MemSet(@, address, toU8(value))]

\* read2: junk is what the read of memory[65536] yields
\* read2 that wraps the low address only: the high byte of a pointer at
\* 0x00FF comes from 0x0100
read2HighOffPage(s, addr, wrapToPage, junk) ==
    LET address == IF wrapToPage THEN wrapToByte(toU16(addr)) ELSE toU16(addr)
        hi == address + 1
        hiByte == IF hi < MEMORY_SIZE_BYTES THEN MemGet(s.memory, hi) ELSE junk
    IN  toU16(MemGet(s.memory, address) + hiByte * 256)

read2(s, addr, wrapToPage, junk) ==
    LET address == IF wrapToPage THEN wrapToByte(toU16(addr)) ELSE toU16(addr)
        highAddress == address + 1
        hi == IF wrapToPage THEN wrapToByte(highAddress) ELSE highAddress
        hiByte == IF hi < MEMORY_SIZE_BYTES THEN MemGet(s.memory, hi) ELSE junk
    IN  toU16(MemGet(s.memory, address) + hiByte * 256)

read2OutOfRange(addr, wrapToPage) ==
    (~wrapToPage) /\ toU16(addr) + 1 >= MEMORY_SIZE_BYTES

\* push that decrements SP before it stores: memory[stackTop + --stack]
pushPreDecrement(s, value) ==
    [s EXCEPT !.memory = MemSet(@, stackTop + toU8(s.stack - 1), toU8(value)),
              !.stack = toU8(s.stack - 1)]

push(s, value) ==
    [s EXCEPT !.memory = MemSet(@, stackTop + s.stack, toU8(value)),
              !.stack = toU8(s.stack - 1)]

push2(s, value) == push(push(s, toU8(value \div 256)), toU8(BitAnd(value, u8Max)))

\* pop: the state after and the byte popped
pop(s) ==
    LET sp == toU8(s.stack + 1)
    IN  [s |-> [s EXCEPT !.stack = sp], v |-> MemGet(s.memory, stackTop + sp)]

\* pop2: pop() + (pop() << 8U); the operands of + are evaluated in an
\* unspecified order, leftFirst says which
pop2(s, leftFirst) ==
    LET p1 == pop(s)
        p2 == pop(p1.s)
    IN  [s |-> p2.s,
         v |-> IF leftFirst THEN toU16(p1.v + p2.v * 256)
                            ELSE toU16(p2.v + p1.v * 256)]

\* popFlags that restores the popped byte without forcing bit 5
popFlagsKeepsUnused(s) ==
    LET p == pop(s)
        v2 == BitAnd(p.v, toU8(BitNot(bitmask(Break))))
    IN  [p.s EXCEPT !.flags = v2]

popFlags(s) ==
    LET p == pop(s)
        v1 == BitOr(p.v, bitmask(Unused))
        v2 == BitAnd(v1, toU8(BitNot(bitmask(Break))))
    IN  [p.s EXCEPT !.flags = v2]

setFlag(s, flag, on) == [s EXCEPT !.flags = FlagsSet(@, flag, on)]

\* calculateFlag that raises a flag and never clears one
calculateFlagSetsOnly(s, val, flag) ==
    LET value == toU8(val)
        result == IF flag = Carry THEN value = u8Max
                  ELSE IF flag = Zero THEN value = 0
                  ELSE IF flag = Negative THEN isNegative(value)
                  ELSE FALSE
    IN  IF result THEN setFlag(s, flag, TRUE) ELSE s

calculateFlag(s, val, flag) ==
    LET value == toU8(val)
    IN  IF flag = Carry THEN setFlag(s, flag, value = u8Max)
        ELSE IF flag = Zero THEN setFlag(s, flag, value = 0)
        ELSE IF flag = Negative THEN setFlag(s, flag, isNegative(value))
        ELSE s

calculateFlagZN(s, value) ==
    calculateFlag(calculateFlag(s, value, Zero), value, Negative)

\* compare whose C is the strict a > b
compareStrict(s, a, b) ==
    LET s1 == setFlag(s, Zero, toU8(a) = toU8(b))
        s2 == setFlag(s1, Carry, toU8(a) > toU8(b))
    IN  setFlag(s2, Negative, isNegative(toU8(toU8(a) - toU8(b))))

compare(s, a, b) ==
    LET s1 == setFlag(s, Zero, toU8(a) = toU8(b))
        s2 == setFlag(s1, Carry, toU8(a) >= toU8(b))
    IN  setFlag(s2, Negative, isNegative(toU8(toU8(a) - toU8(b))))

\* addWithCarry whose V compares the result's sign with the accumulator's only
addWithCarryOverflowOfA(s, val) ==
    LET value == toU8(val)
        result == toU8(s.accumulator + value
                       + (IF FlagsTest(s.flags, Carry) THEN 1 ELSE 0))
        s1 == calculateFlagZN(s, result)
        resultSign == sign(result)
        s2 == setFlag(s1, Overflow, sign(s.accumulator) # resultSign)
        s3 == setFlag(s2, Carry, result < s.accumulator)
    IN  [s3 EXCEPT !.accumulator = result]

addWithCarry(s, val) ==
    LET value == toU8(val)
        result == toU8(s.accumulator + value
                       + (IF FlagsTest(s.flags, Carry) THEN 1 ELSE 0))
        s1 == calculateFlagZN(s, result)
        resultSign == sign(result)
        s2 == setFlag(s1, Overflow, (sign(s.accumulator) # resultSign)
                                    /\ (sign(value) # resultSign))
        s3 == setFlag(s2, Carry, result < s.accumulator)
    IN  [s3 EXCEPT !.accumulator = result]

\* ------------------------------------------------------------------------
\* ValueStore, the operand handle
\* ------------------------------------------------------------------------
ValueStore(type, value) == [type |-> type, value |-> value]

\* ValueStore::read, with the state its assert leaves
VSread(s, t) ==
    IF t.type = "Accumulator" THEN s.accumulator
    ELSE IF t.type = "Memory" THEN read(s, t.value)
    ELSE IF t.type = "Value" THEN t.value
    ELSE 0

VSreadAssert(s, t) ==
    [s EXCEPT !.assertFailed = @ \/ (t.type = "Implicit")]

\* ValueStore::write
VSwrite(s, t, newValue) ==
    IF t.type = "Accumulator" THEN [s EXCEPT !.accumulator = toU8(newValue)]
    ELSE IF t.type = "Memory" THEN write(s, t.value, toU8(newValue))
    ELSE [s EXCEPT !.assertFailed = TRUE]

\* ------------------------------------------------------------------------
\* getTarget, the addressing-mode resolver: the state after the operand
\* bytes are consumed, and the handle
\* ------------------------------------------------------------------------
Target(s, t) == [s |-> s, t |-> t]

tImmediate(s) ==
    Target([s EXCEPT !.pc = toU16(@ + 1)],
           ValueStore("Value", read(s, s.pc)))

tZeropage(s) ==
    Target([s EXCEPT !.pc = toU16(@ + 1)],
           ValueStore("Memory", read(s, s.pc)))

\* the Absolute resolver that steps PC over one operand byte only
tAbsoluteOneByte(s, junk) ==
    Target([s EXCEPT !.pc = toU16(@ + 1),
                     !.outOfRange = @ \/ read2OutOfRange(s.pc, FALSE)],
           ValueStore("Memory", read2(s, s.pc, FALSE, junk)))

tAbsolute(s, junk) ==
    Target([s EXCEPT !.pc = toU16(@ + 2),
                     !.outOfRange = @ \/ read2OutOfRange(s.pc, FALSE)],
           ValueStore("Memory", read2(s, s.pc, FALSE, junk)))

tIndirect(s, junk) ==
    LET abs == tAbsolute(s, junk)
        lowTarget == abs.t.value
        highTarget == IF indirectJumpBug /\ BitAnd(lowTarget, u8Max) # 0
                      THEN BitAnd(lowTarget, u16Upper)
                      ELSE toU16(lowTarget + 1)
    IN  Target(abs.s,
               ValueStore("Memory",
                   toU16(read(abs.s, highTarget) * 256 + read(abs.s, lowTarget))))

tRelative(s) ==
    LET imm == tImmediate(s)
        value == toU8(imm.t.value)
        lowerBits == toU8(BitXor(value, 128))
    IN  IF isNegative(value)
        THEN Target(imm.s,
                 ValueStore("Memory", toU16(imm.s.pc - (BitNot(lowerBits) + 1))))
        ELSE Target(imm.s, ValueStore("Memory", toU16(imm.s.pc + value)))

getTarget(s, mode, junk) ==
    CASE mode = "Implicit" -> Target(s, ValueStore("Implicit", 0))
      [] mode = "Accumulator" -> Target(s, ValueStore("Accumulator", 0))
      [] mode = "Immediate" -> tImmediate(s)
      [] mode = "Absolute" -> tAbsolute(s, junk)
      [] mode = "AbsoluteX" ->
            LET abs == tAbsolute(s, junk)
            IN  Target(abs.s, ValueStore("Memory", toU16(abs.t.value + s.indexX)))
      [] mode = "AbsoluteY" ->
            LET abs == tAbsolute(s, junk)
            IN  Target(abs.s, ValueStore("Memory", toU16(abs.t.value + s.indexY)))
      [] mode = "Indirect" -> tIndirect(s, junk)
      [] mode = "IndirectX" ->
            LET zp == tZeropage(s)
                indirectAddr == zp.t.value + s.indexX
            IN  Target(zp.s, ValueStore("Memory", read2(zp.s, indirectAddr, TRUE, junk)))
      [] mode = "IndirectY" ->
            LET zp == tZeropage(s)
                indirectAddr == zp.t.value
            IN  Target(zp.s, ValueStore("Memory",
                    toU16(read2(zp.s, indirectAddr, TRUE, junk) + s.indexY)))
      [] mode = "Relative" -> tRelative(s)
      [] mode = "Zeropage" -> tZeropage(s)
      [] mode = "ZeropageX" ->
            LET imm == tImmediate(s)
            IN  Target(imm.s, ValueStore("Memory", wrapToByte(imm.t.value + s.indexX)))
      [] mode = "ZeropageY" ->
            LET imm == tImmediate(s)
            IN  Target(imm.s, ValueStore("Memory", wrapToByte(imm.t.value + s.indexY)))

branch(s, address) == [s EXCEPT !.pc = address]

\* ------------------------------------------------------------------------
\* The operations
\* ------------------------------------------------------------------------
oADC(s, address) == addWithCarry(VSreadAssert(s, address), VSread(s, address))

oAND(s, address) ==
    LET input == VSread(s, address)
        s1 == [VSreadAssert(s, address) EXCEPT !.accumulator = BitAnd(@, input)]
    IN  calculateFlagZN(s1, s1.accumulator)

oASL(s, address) ==
    LET input == VSread(s, address)
        s1 == setFlag(VSreadAssert(s, address), Carry, getBit(7, input))
        result == input * 2
    IN  VSwrite(calculateFlagZN(s1, result), address, result)

oBCC(s, target) ==
    IF ~FlagsTest(s.flags, Carry) THEN branch(s, target.value) ELSE s

oBCS(s, target) ==
    IF FlagsTest(s.flags, Carry) THEN branch(s, target.value) ELSE s

oBEQ(s, target) ==
    IF FlagsTest(s.flags, Zero) THEN branch(s, target.value) ELSE s

oBIT(s, address) ==
    LET input == VSread(s, address)
        s1 == setFlag(VSreadAssert(s, address), Zero,
                      BitAnd(input, s.accumulator) = 0)
        s2 == setFlag(s1, Overflow, getBit(6, input))
    IN  setFlag(s2, Negative, isNegative(input))

oBMI(s, target) ==
    IF FlagsTest(s.flags, Negative) THEN branch(s, target.value) ELSE s

oBNE(s, target) ==
    IF ~FlagsTest(s.flags, Zero) THEN branch(s, target.value) ELSE s

oBPL(s, target) ==
    IF ~FlagsTest(s.flags, Negative) THEN branch(s, target.value) ELSE s

\* oBRK that goes on to load PC from the IRQ vector
oBRKTakesVector(s, target) ==
    LET s1 == setFlag(s, InterruptOff, TRUE)
        s2 == push2(s1, s1.pc)
        s3 == push(s2, toU8(s2.flags))
    IN  [s3 EXCEPT !.pc = read2(s3, 65534, FALSE, 0)]

oBRK(s, target) ==
    LET s1 == setFlag(s, InterruptOff, TRUE)
        s2 == push2(s1, s1.pc)
    IN  push(s2, toU8(s2.flags))

oBVC(s, target) ==
    IF ~FlagsTest(s.flags, Overflow) THEN branch(s, target.value) ELSE s

oBVS(s, target) ==
    IF FlagsTest(s.flags, Overflow) THEN branch(s, target.value) ELSE s

oCLC(s, target) == setFlag(s, Carry, FALSE)

oCLD(s, target) == setFlag(s, Decimal, FALSE)

oCLI(s, target) == setFlag(s, InterruptOff, FALSE)

oCLV(s, target) == setFlag(s, Overflow, FALSE)

oCMP(s, address) ==
    compare(VSreadAssert(s, address), s.accumulator, VSread(s, address))

oCPX(s, address) ==
    compare(VSreadAssert(s, address), s.indexX, VSread(s, address))

oCPY(s, address) ==
    compare(VSreadAssert(s, address), s.indexY, VSread(s, address))

oDEC(s, address) ==
    LET input == VSread(s, address)
        result == input - 1
    IN  VSwrite(calculateFlagZN(VSreadAssert(s, address), result), address, result)

oDEX(s, target) ==
    LET result == s.indexX - 1
    IN  [calculateFlagZN(s, result) EXCEPT !.indexX = toU8(result)]

oDEY(s, target) ==
    LET result == s.indexY - 1
    IN  [calculateFlagZN(s, result) EXCEPT !.indexY = toU8(result)]

oEOR(s, address) ==
    LET input == VSread(s, address)
        s1 == [VSreadAssert(s, address) EXCEPT !.accumulator = toU8(BitXor(@, input))]
    IN  calculateFlagZN(s1, s1.accumulator)

oINC(s, address) ==
    LET input == VSread(s, address)
        result == input + 1
    IN  VSwrite(calculateFlagZN(VSreadAssert(s, address), result), address, result)

\* oINX that increments through its operand handle, as oINC does
oINXThroughHandle(s, target) ==
    LET input == VSread(s, target)
        result == input + 1
    IN  VSwrite(calculateFlagZN(VSreadAssert(s, target), result), target, result)

oINX(s, target) ==
    LET result == s.indexX + 1
    IN  [calculateFlagZN(s, result) EXCEPT !.indexX = toU8(result)]

oINY(s, target) ==
    LET result == s.indexY + 1
    IN  [calculateFlagZN(s, result) EXCEPT !.indexY = toU8(result)]

oJMP(s, target) == [s EXCEPT !.pc = target.value]

oJSR(s, target) ==
    [push2(s, toU16(s.pc - 1)) EXCEPT !.pc = target.value]

\* oLDA that computes Z and N before the accumulator is assigned
oLDAFlagsOfOldA(s, address) ==
    LET input == VSread(s, address)
    IN  [calculateFlagZN(VSreadAssert(s, address), s.accumulator)
            EXCEPT !.accumulator = toU8(input)]

oLDA(s, address) ==
    LET input == VSread(s, address)
    IN  calculateFlagZN([VSreadAssert(s, address) EXCEPT !.accumulator = toU8(input)], input)

oLDX(s, address) ==
    LET input == VSread(s, address)
    IN  calculateFlagZN([VSreadAssert(s, address) EXCEPT !.indexX = toU8(input)], input)

oLDY(s, address) ==
    LET input == VSread(s, address)
    IN  calculateFlagZN([VSreadAssert(s, address) EXCEPT !.indexY = toU8(input)], input)

oLSR(s, address) ==
    LET input == VSread(s, address)
        result == input \div 2
        s1 == calculateFlagZN(VSreadAssert(s, address), result)
        s2 == setFlag(s1, Carry, getBit(0, input))
    IN  VSwrite(s2, address, result)

oNOP(s, target) == s

oORA(s, address) ==
    LET input == VSread(s, address)
        result == BitOr(s.accumulator, input)
    IN  [calculateFlagZN(VSreadAssert(s, address), result)
            EXCEPT !.accumulator = toU8(result)]

oPHA(s, target) == push(s, s.accumulator)

\* oPHP that pushes P as it is, without the Break mask
oPHPPlainFlags(s, target) == push(s, toU8(s.flags))

oPHP(s, target) == push(s, toU8(BitOr(s.flags, bitmask(Break))))

\* oPLA that computes Z and N before the accumulator is assigned
oPLAFlagsOfOldA(s, target) ==
    LET p == pop(s)
    IN  [calculateFlagZN(p.s, s.accumulator) EXCEPT !.accumulator = p.v]

oPLA(s, target) ==
    LET p == pop(s)
        s1 == [p.s EXCEPT !.accumulator = p.v]
    IN  calculateFlagZN(s1, s1.accumulator)

oPLP(s, target) == popFlags(s)

\* oROL as an 8-bit rotate: bit 7 of the operand, not the old C, enters bit 0
oROLEightBit(s, address) ==
    LET input == VSread(s, address)
        result == setBit(0, input * 2, getBit(7, input))
        s1 == setFlag(VSreadAssert(s, address), Carry, getBit(7, input))
    IN  VSwrite(calculateFlagZN(s1, result), address, result)

oROL(s, address) ==
    LET input == VSread(s, address)
        result == setBit(0, input * 2, FlagsTest(s.flags, Carry))
        s1 == setFlag(VSreadAssert(s, address), Carry, getBit(7, input))
    IN  VSwrite(calculateFlagZN(s1, result), address, result)

oROR(s, address) ==
    LET input == VSread(s, address)
        result == setBit(7, input \div 2, FlagsTest(s.flags, Carry))
        s1 == setFlag(VSreadAssert(s, address), Carry, getBit(0, input))
    IN  VSwrite(calculateFlagZN(s1, result), address, result)

oRTI(s, target, leftFirst) ==
    LET p == pop2(popFlags(s), leftFirst)
    IN  [p.s EXCEPT !.pc = p.v]

oRTS(s, target, leftFirst) ==
    LET p == pop2(s, leftFirst)
    IN  [p.s EXCEPT !.pc = toU16(p.v + 1)]

oSBC(s, address) ==
    addWithCarry(VSreadAssert(s, address), toU8(BitNot(VSread(s, address))))

oSEC(s, target) == setFlag(s, Carry, TRUE)

oSED(s, target) == setFlag(s, Decimal, TRUE)

oSEI(s, target) == setFlag(s, InterruptOff, TRUE)

oSTA(s, address) == VSwrite(s, address, s.accumulator)

oSTX(s, address) == VSwrite(s, address, s.indexX)

oSTY(s, address) == VSwrite(s, address, s.indexY)

oTAX(s, target) ==
    LET s1 == [s EXCEPT !.indexX = s.accumulator]
    IN  calculateFlagZN(s1, s1.indexX)

oTAY(s, target) ==
    LET s1 == [s EXCEPT !.indexY = s.accumulator]
    IN  calculateFlagZN(s1, s1.indexY)

oTSX(s, target) ==
    LET s1 == [s EXCEPT !.indexX = s.stack]
    IN  calculateFlagZN(s1, s1.indexX)

oTXA(s, target) ==
    LET s1 == [s EXCEPT !.accumulator = s.indexX]
    IN  calculateFlagZN(s1, s1.accumulator)

oTXS(s, target) == [s EXCEPT !.stack = s.indexX]

oTYA(s, target) ==
    LET s1 == [s EXCEPT !.accumulator = s.indexY]
    IN  calculateFlagZN(s1, s1.accumulator)

\* std::invoke(instruction.function, this, target)
Invoke(f, s, t, leftFirst) ==
    CASE f = "oADC" -> oADC(s, t) [] f = "oAND" -> oAND(s, t)
      [] f = "oASL" -> oASL(s, t) [] f = "oBCC" -> oBCC(s, t)
      [] f = "oBCS" -> oBCS(s, t) [] f = "oBEQ" -> oBEQ(s, t)
      [] f = "oBIT" -> oBIT(s, t) [] f = "oBMI" -> oBMI(s, t)
      [] f = "oBNE" -> oBNE(s, t) [] f = "oBPL" -> oBPL(s, t)
      [] f = "oBRK" -> oBRK(s, t) [] f = "oBVC" -> oBVC(s, t)
      [] f = "oBVS" -> oBVS(s, t) [] f = "oCLC" -> oCLC(s, t)
      [] f = "oCLD" -> oCLD(s, t) [] f = "oCLI" -> oCLI(s, t)
      [] f = "oCLV" -> oCLV(s, t) [] f = "oCMP" -> oCMP(s, t)
      [] f = "oCPX" -> oCPX(s, t) [] f = "oCPY" -> oCPY(s, t)
      [] f = "oDEC" -> oDEC(s, t) [] f = "oDEX" -> oDEX(s, t)
      [] f = "oDEY" -> oDEY(s, t) [] f = "oEOR" -> oEOR(s, t)
      [] f = "oINC" -> oINC(s, t) [] f = "oINX" -> oINX(s, t)
      [] f = "oINY" -> oINY(s, t) [] f = "oJMP" -> oJMP(s, t)
      [] f = "oJSR" -> oJSR(s, t) [] f = "oLDA" -> oLDA(s, t)
      [] f = "oLDX" -> oLDX(s, t) [] f = "oLDY" -> oLDY(s, t)
      [] f = "oLSR" -> oLSR(s, t) [] f = "oNOP" -> oNOP(s, t)
      [] f = "oORA" -> oORA(s, t) [] f = "oPHA" -> oPHA(s, t)
      [] f = "oPHP" -> oPHP(s, t) [] f = "oPLA" -> oPLA(s, t)
      [] f = "oPLP" -> oPLP(s, t) [] f = "oROL" -> oROL(s, t)
      [] f = "oROR" -> oROR(s, t) [] f = "oRTI" -> oRTI(s, t, leftFirst)
      [] f = "oRTS" -> oRTS(s, t, leftFirst) [] f = "oSBC" -> oSBC(s, t)
      [] f = "oSEC" -> oSEC(s, t) [] f = "oSED" -> oSED(s, t)
      [] f = "oSEI" -> oSEI(s, t) [] f = "oSTA" -> oSTA(s, t)
      [] f = "oSTX" -> oSTX(s, t) [] f = "oSTY" -> oSTY(s, t)
      [] f = "oTAX" -> oTAX(s, t) [] f = "oTAY" -> oTAY(s, t)
      [] f = "oTSX" -> oTSX(s, t) [] f = "oTXA" -> oTXA(s, t)
      [] f = "oTXS" -> oTXS(s, t) [] f = "oTYA" -> oTYA(s, t)

\* ------------------------------------------------------------------------
\* The decoder table, indexed by opcode + 1
\* ------------------------------------------------------------------------
I(function, addressMode) == [function |-> function, addressMode |-> addressMode]

instructions == <<
    I("oBRK", "Implicit"), I("oORA", "IndirectX"), I("null", "Implicit"), I("null", "Implicit"),
    I("null", "Implicit"), I("oORA", "Zeropage"), I("oASL", "Zeropage"), I("null", "Implicit"),
    I("oPHP", "Implicit"), I("oORA", "Immediate"), I("oASL", "Accumulator"), I("null", "Implicit"),
    I("null", "Implicit"), I("oORA", "Absolute"), I("oASL", "Absolute"), I("null", "Implicit"),
    I("oBPL", "Relative"), I("oORA", "IndirectY"), I("null", "Implicit"), I("null", "Implicit"),
    I("null", "Implicit"), I("oORA", "ZeropageX"), I("oASL", "ZeropageX"), I("null", "Implicit"),
    I("oCLC", "Implicit"), I("oORA", "AbsoluteY"), I("null", "Implicit"), I("null", "Implicit"),
    I("null", "Implicit"), I("oORA", "AbsoluteX"), I("oASL", "AbsoluteX"), I("null", "Implicit"),
    I("oJSR", "Absolute"), I("oAND", "IndirectX"), I("null", "Implicit"), I("null", "Implicit"),
    I("oBIT", "Zeropage"), I("oAND", "Zeropage"), I("oROL", "Zeropage"), I("null", "Implicit"),
    I("oPLP", "Implicit"), I("oAND", "Immediate"), I("oROL", "Accumulator"), I("null", "Implicit"),
    I("oBIT", "Absolute"), I("oAND", "Absolute"), I("oROL", "Absolute"), I("null", "Implicit"),
    I("oBMI", "Relative"), I("oAND", "IndirectY"), I("null", "Implicit"), I("null", "Implicit"),
    I("null", "Implicit"), I("oAND", "ZeropageX"), I("oROL", "ZeropageX"), I("null", "Implicit"),
    I("oSEC", "Implicit"), I("oAND", "AbsoluteY"), I("null", "Implicit"), I("null", "Implicit"),
    I("null", "Implicit"), I("oAND", "AbsoluteX"), I("oROL", "AbsoluteX"), I("null", "Implicit"),
    I("oRTI", "Implicit"), I("oEOR", "IndirectX"), I("null", "Implicit"), I("null", "Implicit"),
    I("null", "Implicit"), I("oEOR", "Zeropage"), I("oLSR", "Zeropage"), I("null", "Implicit"),
    I("oPHA", "Implicit"), I("oEOR", "Immediate"), I("oLSR", "Accumulator"), I("null", "Implicit"),
    I("oJMP", "Absolute"), I("oEOR", "Absolute"), I("oLSR", "Absolute"), I("null", "Implicit"),
    I("oBVC", "Relative"), I("oEOR", "IndirectY"), I("null", "Implicit"), I("null", "Implicit"),
    I("null", "Implicit"), I("oEOR", "ZeropageX"), I("oLSR", "ZeropageX"), I("null", "Implicit"),
    I("oCLI", "Implicit"), I("oEOR", "AbsoluteY"), I("null", "Implicit"), I("null", "Implicit"),
    I("null", "Implicit"), I("oEOR", "AbsoluteX"), I("oLSR", "AbsoluteX"), I("null", "Implicit"),
    I("oRTS", "Implicit"), I("oADC", "IndirectX"), I("null", "Implicit"), I("null", "Implicit"),
    I("null", "Implicit"), I("oADC", "Zeropage"), I("oROR", "Zeropage"), I("null", "Implicit"),
    I("oPLA", "Implicit"), I("oADC", "Immediate"), I("oROR", "Accumulator"), I("null", "Implicit"),
    I("oJMP", "Indirect"), I("oADC", "Absolute"), I("oROR", "Absolute"), I("null", "Implicit"),
    I("oBVS", "Relative"), I("oADC", "IndirectY"), I("null", "Implicit"), I("null", "Implicit"),
    I("null", "Implicit"), I("oADC", "ZeropageX"), I("oROR", "ZeropageX"), I("null", "Implicit"),
    I("oSEI", "Implicit"), I("oADC", "AbsoluteY"), I("null", "Implicit"), I("null", "Implicit"),
    I("null", "Implicit"), I("oADC", "AbsoluteX"), I("oROR", "AbsoluteX"), I("null", "Implicit"),
    I("null", "Implicit"), I("oSTA", "IndirectX"), I("null", "Implicit"), I("null", "Implicit"),
    I("oSTY", "Zeropage"), I("oSTA", "Zeropage"), I("oSTX", "Zeropage"), I("null", "Implicit"),
    I("oDEY", "Implicit"), I("null", "Implicit"), I("oTXA", "Implicit"), I("null", "Implicit"),
    I("oSTY", "Absolute"), I("oSTA", "Absolute"), I("oSTX", "Absolute"), I("null", "Implicit"),
    I("oBCC", "Relative"), I("oSTA", "IndirectY"), I("null", "Implicit"), I("null", "Implicit"),
    I("oSTY", "ZeropageX"), I("oSTA", "ZeropageX"), I("oSTX", "ZeropageY"), I("null", "Implicit"),
    I("oTYA", "Implicit"), I("oSTA", "AbsoluteY"), I("oTXS", "Implicit"), I("null", "Implicit"),
    I("null", "Implicit"), I("oSTA", "AbsoluteX"), I("null", "Implicit"), I("null", "Implicit"),
    I("oLDY", "Immediate"), I("oLDA", "IndirectX"), I("oLDX", "Immediate"), I("null", "Implicit"),
    I("oLDY", "Zeropage"), I("oLDA", "Zeropage"), I("oLDX", "Zeropage"), I("null", "Implicit"),
    I("oTAY", "Implicit"), I("oLDA", "Immediate"), I("oTAX", "Implicit"), I("null", "Implicit"),
    I("oLDY", "Absolute"), I("oLDA", "Absolute"), I("oLDX", "Absolute"), I("null", "Implicit"),
    I("oBCS", "Relative"), I("oLDA", "IndirectY"), I("null", "Implicit"), I("null", "Implicit"),
    I("oLDY", "ZeropageX"), I("oLDA", "ZeropageX"), I("oLDX", "ZeropageY"), I("null", "Implicit"),
    I("oCLV", "Implicit"), I("oLDA", "AbsoluteY"), I("oTSX", "Implicit"), I("null", "Implicit"),
    I("oLDY", "AbsoluteX"), I("oLDA", "AbsoluteX"), I("oLDX", "AbsoluteY"), I("null", "Implicit"),
    I("oCPY", "Immediate"), I("oCMP", "IndirectX"), I("null", "Implicit"), I("null", "Implicit"),
    I("oCPY", "Zeropage"), I("oCMP", "Zeropage"), I("oDEC", "Zeropage"), I("null", "Implicit"),
    I("oINY", "Implicit"), I("oCMP", "Immediate"), I("oDEX", "Implicit"), I("null", "Implicit"),
    I("oCPY", "Absolute"), I("oCMP", "Absolute"), I("oDEC", "Absolute"), I("null", "Implicit"),
    I("oBNE", "Relative"), I("oCMP", "IndirectY"), I("null", "Implicit"), I("null", "Implicit"),
    I("null", "Implicit"), I("oCMP", "ZeropageX"), I("oDEC", "ZeropageX"), I("null", "Implicit"),
    I("oCLD", "Implicit"), I("oCMP", "AbsoluteY"), I("null", "Implicit"), I("null", "Implicit"),
    I("null", "Implicit"), I("oCMP", "AbsoluteX"), I("oDEC", "AbsoluteX"), I("null", "Implicit"),
    I("oCPX", "Immediate"), I("oSBC", "IndirectX"), I("null", "Implicit"), I("null", "Implicit"),
    I("oCPX", "Zeropage"), I("oSBC", "Zeropage"), I("oINC", "Zeropage"), I("null", "Implicit"),
    I("oINX", "Implicit"), I("oSBC", "Immediate"), I("oNOP", "Implicit"), I("null", "Implicit"),
    I("oCPX", "Absolute"), I("oSBC", "Absolute"), I("oINC", "Absolute"), I("null", "Implicit"),
    I("oBEQ", "Relative"), I("oSBC", "IndirectY"), I("null", "Implicit"), I("null", "Implicit"),
    I("null", "Implicit"), I("oSBC", "ZeropageX"), I("oINC", "ZeropageX"), I("null", "Implicit"),
    I("oSED", "Implicit"), I("oSBC", "AbsoluteY"), I("null", "Implicit"), I("null", "Implicit"),
    I("null", "Implicit"), I("oSBC", "AbsoluteX"), I("oINC", "AbsoluteX"), I("null", "Implicit")
>>

\* step() that reports a null entry as an executed instruction
stepNeverHalts(s, leftFirst, junk) ==
    LET opcode == read(s, s.pc)
        s1 == [s EXCEPT !.pc = toU16(@ + 1)]
        instruction == instructions[opcode + 1]
    IN  IF instruction.function = "null"
        THEN [s |-> s1, ret |-> TRUE]
        ELSE LET target == getTarget(s1, instruction.addressMode, junk)
             IN  [s |-> Invoke(instruction.function, target.s, target.t, leftFirst),
                  ret |-> TRUE]

\* step(): the state after, and the value returned
step(s, leftFirst, junk) ==
    LET opcode == read(s, s.pc)
        s1 == [s EXCEPT !.pc = toU16(@ + 1)]
        instruction == instructions[opcode + 1]
    IN  IF instruction.function = "null"
        THEN [s |-> s1, ret |-> FALSE]
        ELSE LET target == getTarget(s1, instruction.addressMode, junk)
             IN  [s |-> Invoke(instruction.function, target.s, target.t, leftFirst),
                  ret |-> TRUE]

\* ------------------------------------------------------------------------
\* reset() and loadProgram()
\* ------------------------------------------------------------------------
reset(s) ==
    [s EXCEPT !.memory = ZeroMemory,
              !.pc = initialProgramCounter,
              !.stack = initialStackPointer,
              !.flags = initialFlags]

\* std::copy(program.begin(), program.end(), memory.begin() + offset)
MemCopy(m, program, offset) ==
    LET range == offset..(offset + Len(program) - 1)
        full == [a \in DOMAIN m \cup range |->
                    IF a \in range THEN program[a - offset + 1] ELSE m[a]]
    IN  [a \in {x \in DOMAIN full : full[x] # 0} |-> full[a]]

\* the bounds check with >= for >, refusing a program that ends at byte 65535
loadProgramThrowsAtEnd(s, program, offset) ==
    offset + Len(program) >= MEMORY_SIZE_BYTES

loadProgramThrows(s, program, offset) ==
    offset + Len(program) > MEMORY_SIZE_BYTES

loadProgram(s, program, offset) ==
    IF loadProgramThrows(s, program, offset) THEN s
    ELSE [s EXCEPT !.memory = MemCopy(@, program, offset), !.pc = offset]

\* ------------------------------------------------------------------------
\* The inputs the model draws
\* ------------------------------------------------------------------------
SampleBytes == {0, 1, 5, 64, 127, 128, 129, 255}
FlagBytes == {0, 16, 32, 195, 223, 255}
BranchOffsets == {0, 1, 127, 128, 253, 255}
BranchOpcodes == {16, 48, 80, 112, 144, 176, 208, 240}
BranchOrigins == {0, 1536, 65530}
JumpPointers == {4351, 4660, 4608, 4862, 65535}
StackPointers == {0, 1, 2, 128, 255}
JunkBytes == {0, 1, 255}

Load(program, offset) == [program |-> program, offset |-> offset]

\* LDA #a; CLC or SEC; ADC #b or SBC #b
AluPrograms ==
    {Load(<<169, a, cs, op, b>>, initialProgramCounter) :
        a \in SampleBytes, b \in SampleBytes, cs \in {24, 56}, op \in {105, 233}}

\* LDA #v; PHA; PLP or RTI
PullPrograms ==
    {Load(<<169, v, 72, op>>, initialProgramCounter) :
        v \in SampleBytes \cup FlagBytes, op \in {40, 64}}

\* LDA #v; PHA; PLP; Bxx o
BranchPrograms ==
    {Load(<<169, v, 72, 40, br, o>>, origin) :
        v \in {0, 195}, br \in BranchOpcodes, o \in BranchOffsets,
        origin \in BranchOrigins}

\* JMP (a) placed right before the page of a, with the bytes at a, at a + 1
\* and at the start of the page of a set to different values
JumpImage(a) ==
    LET base == a - (a % 256)
        offset == base - 3
        last == IF a + 1 < MEMORY_SIZE_BYTES THEN a + 1 ELSE a
    IN  Load([i \in 1..(last - offset + 1) |->
                LET x == offset + i - 1
                IN  IF x = offset THEN 108
                    ELSE IF x = offset + 1 THEN a % 256
                    ELSE IF x = offset + 2 THEN a \div 256
                    ELSE IF x = a THEN 34
                    ELSE IF x = a + 1 THEN 51
                    ELSE IF x = base THEN 17
                    ELSE 0],
             offset)

JumpPrograms == {JumpImage(a) : a \in JumpPointers}

\* LDX #v; TXS; BRK
BreakPrograms ==
    {Load(<<162, v, 154, 0>>, initialProgramCounter) : v \in StackPointers}

ScenarioPrograms ==
    {Load(<<169, 5, 0>>, initialProgramCounter),
     Load(<<169, 255, 105, 1, 0>>, initialProgramCounter),
     Load(<<162, 3, 202, 208, 253, 0>>, initialProgramCounter),
     Load(<<169, 128, 10, 0>>, initialProgramCounter),
     Load(<<169, 64, 72, 169, 0, 104, 0>>, initialProgramCounter)}

\* every opcode byte, followed by the operand bytes 0x34 0x12
OpcodePrograms ==
    {Load(<<op, 52, 18>>, initialProgramCounter) : op \in Byte}

\* programs that end at, and past, the last byte of memory
EdgePrograms ==
    {Load(<<234, 234, 234>>, 65533), Load(<<234, 234, 234>>, 65534)}

\* LDA #0x5A; LDX #v; TXS; ops at 0x00F0, with the stack page behind it:
\* the six bytes around 0x0100 + v hold 0xA1..0xA6
StackImage(v, ops) ==
    LET offset == 240
        code == <<169, 90, 162, v, 154>> \o ops
    IN  Load([i \in 1..(512 - offset) |->
                LET x == offset + i - 1
                    d == (x - 256 - v + 2) % 256
                IN  IF i <= Len(code) THEN code[i]
                    ELSE IF x >= 256 /\ d < 6 THEN 161 + d
                    ELSE 0],
             offset)

\* PHA; PLA, PHP; PLP, PLA, PLP, JSR $00FA; NOP; NOP; RTS, RTS, RTI, BRK
StackOps ==
    {<<72, 104>>, <<8, 40>>, <<104>>, <<40>>, <<32, 250, 0, 234, 234, 96>>,
     <<96>>, <<64>>, <<0>>}

StackPrograms == {StackImage(v, ops) : v \in StackPointers, ops \in StackOps}

\* JSR to the RTS three bytes behind it; LDA #f; PHA; PLP; PHP; PLP;
\* PHP; LDA #0x80; SEC; PLP
CallPrograms ==
    {Load(<<32, (origin + 6) % 256, (origin + 6) \div 256, 234, 234, 234, 96>>,
          origin) : origin \in {1536, 4351}}
    \cup {Load(<<169, f, 72, 40, 8, 40>>, initialProgramCounter) :
              f \in FlagBytes}
    \cup {Load(<<8, 169, 128, 56, 40>>, initialProgramCounter)}

\* PHP; LDA #v; LDX #r or LDY #r; op zp at 0x0000, with 0x34 at 0x00FF and
\* 0x77 at 0x0100: the zero-page indexed and the indirect modes
IndexImage(v, ldr, r, op, zp) ==
    LET code == <<8, 169, v, ldr, r, op, zp>>
    IN  Load([i \in 1..257 |->
                IF i <= Len(code) THEN code[i]
                ELSE IF i = 256 THEN 52
                ELSE IF i = 257 THEN 119
                ELSE 0],
             0)

IndexBytes == {0, 1, 255}
ZeropageBytes == {1, 2, 128, 254, 255}

\* LDA STA LDY STY zp,X and LDA STA (zp,X); LDX STX zp,Y and LDA STA (zp),Y
IndexPrograms ==
    {IndexImage(v, 162, r, op, zp) :
        v \in {90, 255}, r \in IndexBytes, zp \in ZeropageBytes,
        op \in {181, 149, 180, 148, 161, 129}}
    \cup {IndexImage(v, 160, r, op, zp) :
              v \in {90, 255}, r \in IndexBytes, zp \in ZeropageBytes,
              op \in {182, 150, 177, 145}}

\* LDA #f; PHA; PLP; LDA #v or LDX #v or LDY #v
LoadImmediatePrograms(values) ==
    {Load(<<169, f, 72, 40, op, v>>, initialProgramCounter) :
        f \in FlagBytes, op \in {169, 162, 160}, v \in values}

\* LDA/LDX/LDY #r; CMP/CPX/CPY #m
ComparePrograms(values) ==
    {Load(<<ops[1], r, ops[2], m>>, initialProgramCounter) :
        ops \in {<<169, 201>>, <<162, 224>>, <<160, 192>>},
        r \in values, m \in values}

\* LDA #f; PHA; PLP; CMP/CPX/CPY #m, and the same with a zero-page operand
CompareFlagPrograms ==
    {Load(<<169, f, 72, 40, op, m>>, initialProgramCounter) :
        f \in FlagBytes, op \in {201, 224, 192, 197, 228, 196},
        m \in {0, 5, 195, 255}}

\* CLC or SEC; LDA #v; ROL A; ROR A, and CLC or SEC; ROL a; ROR a with the
\* byte v at address a right behind the code
RotatePrograms ==
    {Load(<<cs, 169, v, 42, 106>>, initialProgramCounter) :
        cs \in {24, 56}, v \in Byte}
    \cup {Load(<<cs, 46, 7, 6, 110, 7, 6, v>>, initialProgramCounter) :
        cs \in {24, 56}, v \in Byte}

\* INC $00; NOP; then an opcode at 0xFFFE with a two-byte operand whose low
\* byte is the last byte of memory, or NOP and an opcode at 0xFFFF with a
\* one-byte operand; byte 0x0000 holds 1 when the opcode runs
FetchEdgePrograms ==
    {Load(<<230, 0, 234, op, 52>>, 65531) : op \in {76, 108, 32, 173, 141, 189}}
    \cup {Load(<<230, 0, 234, 234, op>>, 65531) : op \in {169, 165, 208}}

Programs ==
    AluPrograms \cup PullPrograms \cup BranchPrograms \cup JumpPrograms
    \cup BreakPrograms \cup ScenarioPrograms \cup OpcodePrograms
    \cup EdgePrograms \cup StackPrograms \cup CallPrograms
    \cup IndexPrograms \cup LoadImmediatePrograms(SampleBytes)
    \cup ComparePrograms(SampleBytes) \cup CompareFlagPrograms
    \cup RotatePrograms \cup FetchEdgePrograms

\* what is loaded over a program already in memory
Patches == {Load(<<234>>, initialProgramCounter), Load(<<169, 7>>, 1792)}

\* the machine as constructed, and with a program loaded at 0x0600
Constructed ==
    [accumulator |-> 0, indexX |-> 0, indexY |-> 0,
     stack |-> initialStackPointer, pc |-> initialProgramCounter,
     flags |-> initialFlags, memory |-> ZeroMemory,
     outOfRange |-> FALSE, assertFailed |-> FALSE]

Holding(program) ==
    loadProgram(Constructed, program, initialProgramCounter)

\* ------------------------------------------------------------------------
\* The specification
\* ------------------------------------------------------------------------
Init ==
    /\ accumulator = 0
    /\ indexX = 0
    /\ indexY = 0
    /\ stack = initialStackPointer
    /\ pc = initialProgramCounter
    /\ flags = initialFlags
    /\ memory = ZeroMemory
    /\ outOfRange = FALSE
    /\ assertFailed = FALSE
    /\ lastCall = "none"
    /\ ret = TRUE
    /\ thrown = FALSE
    /\ loaded = Load(<<>>, 0)
    /\ pre = Constructed
    /\ trace = <<>>
    /\ steps = 0
    /\ loads = 0
    /\ resets = 0

Becomes(s) ==
    /\ accumulator' = s.accumulator
    /\ indexX' = s.indexX
    /\ indexY' = s.indexY
    /\ stack' = s.stack
    /\ pc' = s.pc
    /\ flags' = s.flags
    /\ memory' = s.memory
    /\ outOfRange' = s.outOfRange
    /\ assertFailed' = s.assertFailed
    /\ pre' = self

Recorded(call, s) == trace' = Append(trace, [call |-> call, after |-> s])

\* the outcomes the build can give one step() from state s: the order of the
\* two pop() calls of pop2 where RTS or RTI calls it, and the byte found
\* behind the array where read2(pc) reads memory[65536]
Orders(s) ==
    IF instructions[read(s, s.pc) + 1].function \in {"oRTI", "oRTS"}
    THEN BOOLEAN ELSE {TRUE}

Junks(s) == IF read2OutOfRange(s.pc + 1, FALSE) THEN JunkBytes ELSE {0}

Step ==
    /\ steps < MaxSteps
    /\ \E leftFirst \in Orders(self), junk \in Junks(self) :
          LET r == step(self, leftFirst, junk)
          IN  /\ Becomes(r.s)
              /\ Recorded("step", r.s)
              /\ ret' = r.ret
    /\ lastCall' = "step"
    /\ steps' = steps + 1
    /\ UNCHANGED <<thrown, loaded, loads, resets>>

LoadProgram ==
    /\ loads < MaxLoads
    /\ \E l \in (IF loads = 0 THEN Programs ELSE Patches) :
          /\ Becomes(loadProgram(self, l.program, l.offset))
          /\ Recorded("loadProgram", loadProgram(self, l.program, l.offset))
          /\ thrown' = loadProgramThrows(self, l.program, l.offset)
          /\ loaded' = l
    /\ lastCall' = "loadProgram"
    /\ loads' = loads + 1
    /\ UNCHANGED <<ret, steps, resets>>

Reset ==
    /\ resets < MaxResets
    /\ Becomes(reset(self))
    /\ Recorded("reset", reset(self))
    /\ lastCall' = "reset"
    /\ resets' = resets + 1
    /\ UNCHANGED <<ret, thrown, loaded, steps, loads>>

Next == Step \/ LoadProgram \/ Reset

Spec == Init /\ [][Next]_vars

\* ------------------------------------------------------------------------
\* The arithmetic unit on every pair of bytes and the loads on every byte:
\* the driver constructs a CPU, loads LDA #a; CLC or SEC; ADC #b, or
\* LDA #f; PHA; PLP; LDA #v (LDX #v, LDY #v), and steps
\* ------------------------------------------------------------------------
AdcPrograms ==
    {Load(<<169, a, cs, 105, b>>, initialProgramCounter) :
        a \in Byte, b \in Byte, cs \in {24, 56}}

\* the reset machine holding program l, no step taken yet
AluStart(l) ==
    LET s == loadProgram(Constructed, l.program, l.offset)
    IN  /\ accumulator = s.accumulator
            /\ indexX = s.indexX
            /\ indexY = s.indexY
            /\ stack = s.stack
            /\ pc = s.pc
            /\ flags = s.flags
            /\ memory = s.memory
            /\ outOfRange = s.outOfRange
            /\ assertFailed = s.assertFailed
            /\ lastCall = "loadProgram"
            /\ ret = TRUE
            /\ thrown = FALSE
            /\ loaded = l
            /\ pre = Constructed
            /\ trace = <<[call |-> "loadProgram", after |-> s]>>
            /\ steps = 0
            /\ loads = 1
            /\ resets = 0

InitAlu ==
    \E l \in AdcPrograms \cup LoadImmediatePrograms(Byte) : AluStart(l)

NextAlu == Step

SpecAlu == InitAlu /\ [][NextAlu]_vars

\* every register value against every operand byte, for CMP, CPX and CPY,
\* and the compares with other flag bytes in P
InitCmp ==
    \/ \E l \in ComparePrograms(Byte) : AluStart(l)
    \/ \E l \in CompareFlagPrograms : AluStart(l)

NextCmp == Step

SpecCmp == InitCmp /\ [][NextCmp]_vars

\* ------------------------------------------------------------------------
\* What the last step() worked on
\* ------------------------------------------------------------------------
Stepped == lastCall = "step"

\* the opcode byte it fetched and the operand bytes behind it
Opcode == MemGet(pre.memory, pre.pc)
Operand1 == MemGet(pre.memory, (pre.pc + 1) % 65536)
Operand2 == MemGet(pre.memory, (pre.pc + 2) % 65536)

\* bit i of a byte, as 0 or 1
Bit(v, i) == (v \div Pow2(i)) % 2

\* ------------------------------------------------------------------------
\* C1: after every instruction step() executes, with any bytes in memory and
\* also when PLP or RTI pull an arbitrary byte from the stack, bit 5 (U) of
\* P is 1.
\* ------------------------------------------------------------------------
C1_UnusedAlwaysSet == (Stepped /\ ret) => Bit(flags, 5) = 1

\* RTI has pulled the byte 0xDF, whose bit 5 is 0, and P is 0xEF
C1_Witness ==
    /\ Stepped /\ ret /\ Opcode = 64
    /\ MemGet(pre.memory, 256 + ((pre.stack + 1) % 256)) = 223
    /\ flags = 239

\* ------------------------------------------------------------------------
\* C2: ADC #b with A = a and C = c leaves A = (a + b + c) mod 256, C = 1
\* exactly when a + b + c >= 256, and Z, N from the new A.
\* ------------------------------------------------------------------------
AdcSum == pre.accumulator + Operand1 + Bit(pre.flags, 0)

C2_AdcSumAndCarry ==
    (Stepped /\ Opcode = 105) =>
        /\ accumulator = AdcSum % 256
        /\ Bit(flags, 0) = (IF AdcSum >= 256 THEN 1 ELSE 0)
        /\ Bit(flags, 1) = (IF accumulator = 0 THEN 1 ELSE 0)
        /\ Bit(flags, 7) = Bit(accumulator, 7)

\* ------------------------------------------------------------------------
\* C3: ADC sets V exactly when a and b have the same bit 7 and the 8-bit
\* result (a + b + c) mod 256 has the other bit 7.
\* ------------------------------------------------------------------------
C3_AdcOverflow ==
    (Stepped /\ Opcode = 105) =>
        (Bit(flags, 6) = 1 <=>
            /\ Bit(pre.accumulator, 7) = Bit(Operand1, 7)
            /\ Bit(AdcSum % 256, 7) # Bit(pre.accumulator, 7))

\* 0x7F + 0x01 overflows into the sign bit: V is set
C3_Witness ==
    /\ Stepped /\ Opcode = 105
    /\ pre.accumulator = 127 /\ Operand1 = 1
    /\ accumulator = 128 + Bit(pre.flags, 0)
    /\ Bit(flags, 6) = 1

\* ------------------------------------------------------------------------
\* C4: SBC #m with A = a and C = c leaves A = (a + (255 - m) + c) mod 256
\* and C = 1 exactly when a + (255 - m) + c >= 256; SEC; SBC #0 leaves A
\* unchanged and C = 1.
\* ------------------------------------------------------------------------
SbcSum == pre.accumulator + (255 - Operand1) + Bit(pre.flags, 0)

C4_SbcIsAdcOfComplement ==
    (Stepped /\ Opcode = 233) =>
        /\ accumulator = SbcSum % 256
        /\ Bit(flags, 0) = (IF SbcSum >= 256 THEN 1 ELSE 0)

\* ------------------------------------------------------------------------
\* C5: JMP (a) sets PC to memory[a] + 256 * memory[h], with h = a AND 0xFF00
\* when the low byte of a is 0xFF and h = a + 1 for every other a.
\* ------------------------------------------------------------------------
JumpPointer == Operand1 + 256 * Operand2

JumpHigh ==
    IF JumpPointer % 256 = 255 THEN JumpPointer - 255 ELSE JumpPointer + 1

C5_IndirectJump ==
    (Stepped /\ Opcode = 108) =>
        pc = MemGet(pre.memory, JumpPointer)
             + 256 * MemGet(pre.memory, JumpHigh)

\* ------------------------------------------------------------------------
\* C6: a taken branch with offset byte o sets PC to (p + s) mod 2^16, p the
\* PC after the offset byte and s = o for o < 128, s = o - 256 otherwise.
\* ------------------------------------------------------------------------
BranchTaken ==
    \/ Opcode = 16 /\ Bit(pre.flags, 7) = 0
    \/ Opcode = 48 /\ Bit(pre.flags, 7) = 1
    \/ Opcode = 80 /\ Bit(pre.flags, 6) = 0
    \/ Opcode = 112 /\ Bit(pre.flags, 6) = 1
    \/ Opcode = 144 /\ Bit(pre.flags, 0) = 0
    \/ Opcode = 176 /\ Bit(pre.flags, 0) = 1
    \/ Opcode = 208 /\ Bit(pre.flags, 1) = 0
    \/ Opcode = 240 /\ Bit(pre.flags, 1) = 1

SignedOffset == IF Operand1 < 128 THEN Operand1 ELSE Operand1 - 256

C6_TakenBranchTarget ==
    (Stepped /\ BranchTaken) =>
        pc = (((pre.pc + 2) % 65536) + SignedOffset) % 65536

\* ------------------------------------------------------------------------
\* C7: BRK sets I, pushes PC high byte then low byte, then pushes P with
\* bit 4 (B) set: SP goes down by 3 modulo 256 and the byte at
\* 0x0100 + SP + 1 has bit 4 set.
\* ------------------------------------------------------------------------
C7_BreakPushes ==
    (Stepped /\ Opcode = 0) =>
        /\ Bit(flags, 2) = 1
        /\ stack = (pre.stack - 3) % 256
        /\ MemGet(memory, 256 + pre.stack) = ((pre.pc + 1) % 65536) \div 256
        /\ MemGet(memory, 256 + ((pre.stack - 1) % 256)) = (pre.pc + 1) % 256
        /\ Bit(MemGet(memory, 256 + ((stack + 1) % 256)), 4) = 1

\* ------------------------------------------------------------------------
\* C8: step() returns false exactly when the entry of the opcode at PC is
\* null, and then PC has advanced by 1 and A, X, Y, SP, P and memory are
\* as before; for every other opcode it returns true.
\* ------------------------------------------------------------------------
C8_HaltOnNullEntry ==
    Stepped =>
        /\ (ret = FALSE) <=> (instructions[Opcode + 1].function = "null")
        /\ (ret = FALSE) =>
              /\ pc = (pre.pc + 1) % 65536
              /\ accumulator = pre.accumulator
              /\ indexX = pre.indexX
              /\ indexY = pre.indexY
              /\ stack = pre.stack
              /\ flags = pre.flags
              /\ memory = pre.memory

\* the undocumented opcode 0x02, met with registers and memory that a
\* program has changed, halts the step one byte further
C8_Witness ==
    /\ Stepped /\ ret = FALSE /\ Opcode = 2
    /\ pre.stack = 250 /\ pre.flags = 36 /\ pre.memory # ZeroMemory
    /\ pc = 1537 /\ stack = 250 /\ memory = pre.memory

\* ------------------------------------------------------------------------
\* C9: with A9 05 00 loaded at 0x0600 in the reset state, the first step()
\* returns true and leaves A = 5, Z = 0, N = 0, PC = 0x0602; the second
\* step() fetches BRK at 0x0602, which has a decoder entry: it returns true
\* as well and leaves PC = 0x0603.
\* ------------------------------------------------------------------------
AfterLda5 ==
    [Holding(<<169, 5, 0>>) EXCEPT !.accumulator = 5, !.pc = 1538]

FirstStepLda5 ==
    (Stepped /\ pre = Holding(<<169, 5, 0>>)) =>
        /\ ret = TRUE
        /\ accumulator = 5
        /\ Bit(flags, 1) = 0
        /\ Bit(flags, 7) = 0
        /\ pc = 1538
        /\ self = AfterLda5

C9_LdaThenBreakRuns ==
    /\ FirstStepLda5
    /\ (Stepped /\ pre = AfterLda5) => (ret = TRUE /\ pc = 1539)

\* C9 with the second step() returning false, as BRK halting would have it
C9_LdaThenBreakHalts ==
    /\ FirstStepLda5
    /\ (Stepped /\ pre = AfterLda5) => ret = FALSE

C9_Witness ==
    /\ Stepped /\ pre = AfterLda5 /\ Opcode = 0
    /\ ret = TRUE /\ pc = 1539

\* ------------------------------------------------------------------------
\* C10: BRK executed by step() leaves PC one past the BRK opcode byte, not
\* at the IRQ vector; one step() of a freshly constructed CPU leaves
\* PC = 0x0601.
\* ------------------------------------------------------------------------
C10_BreakKeepsPc ==
    /\ (Stepped /\ Opcode = 0) => pc = (pre.pc + 1) % 65536
    /\ (Stepped /\ pre = Constructed) => pc = 1537

C10_Witness ==
    /\ Stepped /\ pre = Constructed /\ Opcode = 0
    /\ steps = 1 /\ loads = 0 /\ resets = 0
    /\ pc = 1537

\* ------------------------------------------------------------------------
\* What the calls so far worked on
\* ------------------------------------------------------------------------
Calls == 1..Len(trace)

\* the machine before the first call (i = 0) and after call i
StateAt(i) == IF i = 0 THEN Constructed ELSE trace[i].after

StepAt(i) == trace[i].call = "step"

\* the opcode byte that call i, a step(), fetched, and the byte behind it
OpcodeAt(i) == MemGet(StateAt(i - 1).memory, StateAt(i - 1).pc)
OperandAt(i) == MemGet(StateAt(i - 1).memory, (StateAt(i - 1).pc + 1) % 65536)

\* calls i + 1 .. j are all step()
StepsBetween(i, j) == \A m \in (i + 1)..j : StepAt(m)

\* ------------------------------------------------------------------------
\* C11: with A2 03 CA D0 FD 00 loaded at 0x0600 in the reset state, the
\* steps run LDX #3 and DEX / BNE three times: PC stays in 0x0600..0x0605 for
\* the first 7 steps, and after exactly 7 steps PC = 0x0605, X = 0, Z = 1.
\* ------------------------------------------------------------------------
LoopProgram == <<162, 3, 202, 208, 253, 0>>

C11_LoopCountsDown ==
    \A i \in Calls :
        (trace[i].call = "loadProgram" /\ StateAt(i) = Holding(LoopProgram)) =>
            \A k \in 1..7 :
                (i + k <= Len(trace) /\ StepsBetween(i, i + k)) =>
                    /\ StateAt(i + k).pc \in 1536..1541
                    /\ (k = 7) =>
                          /\ StateAt(i + k).pc = 1541
                          /\ StateAt(i + k).indexX = 0
                          /\ Bit(StateAt(i + k).flags, 1) = 1

\* ------------------------------------------------------------------------
\* C12: loadProgram(bytes, offset) fails exactly when offset + length(bytes)
\* > 65536; a failed load changes nothing; a successful one sets
\* memory[offset + i] = bytes[i], PC = offset and leaves every other memory
\* byte and A, X, Y, SP, P as they were.
\* ------------------------------------------------------------------------
LoadedRange == loaded.offset..(loaded.offset + Len(loaded.program) - 1)

RegistersKept ==
    /\ accumulator = pre.accumulator
    /\ indexX = pre.indexX
    /\ indexY = pre.indexY
    /\ stack = pre.stack
    /\ flags = pre.flags

C12_LoadProgram ==
    (lastCall = "loadProgram") =>
        /\ thrown <=> (loaded.offset + Len(loaded.program) > 65536)
        /\ thrown => (RegistersKept /\ pc = pre.pc /\ memory = pre.memory)
        /\ (~thrown) =>
              /\ \A i \in 1..Len(loaded.program) :
                    MemGet(memory, loaded.offset + i - 1) = loaded.program[i]
              /\ pc = loaded.offset
              /\ \A a \in (DOMAIN memory \cup DOMAIN pre.memory) \ LoadedRange :
                    MemGet(memory, a) = MemGet(pre.memory, a)
              /\ RegistersKept

\* a program ending exactly at byte 65535 is loaded over a stack that BRK
\* has written to
C12_Witness ==
    /\ lastCall = "loadProgram" /\ ~thrown
    /\ loaded.offset + Len(loaded.program) = 65536
    /\ pre.stack = 250 /\ MemGet(pre.memory, 509) = 6
    /\ MemGet(memory, 509) = 6 /\ MemGet(memory, 65535) = 234
    /\ pc = 65533

\* ------------------------------------------------------------------------
\* C13: reset() called in any state that loadProgram and step() reach gives
\* the initial state: A = X = Y = 0, SP = 0xFD, PC = 0x0600, P = 0x24 and
\* every memory byte 0.
\* ------------------------------------------------------------------------
C13_ResetGivesInitialState ==
    (lastCall = "reset") =>
        /\ accumulator = 0
        /\ indexX = 0
        /\ indexY = 0
        /\ stack = 253
        /\ pc = 1536
        /\ flags = 36
        /\ memory = ZeroMemory

\* ------------------------------------------------------------------------
\* C14: PHA, then any instructions after which SP and the pushed stack byte
\* are as PHA left them, then PLA: A and SP are what they were before the
\* PHA, Z = (A = 0) and N = bit 7 of A.
\* ------------------------------------------------------------------------
\* call i pushed one byte and call j, a later step, finds SP and that byte
\* as call i left them
PushedThenKept(i, j) ==
    /\ i < j
    /\ StepAt(i)
    /\ StepsBetween(i, j)
    /\ StateAt(j - 1).stack = StateAt(i).stack
    /\ MemGet(StateAt(j - 1).memory, 256 + StateAt(i - 1).stack)
         = MemGet(StateAt(i).memory, 256 + StateAt(i - 1).stack)

C14_PushPullAccumulator ==
    \A i \in Calls, j \in Calls :
        (PushedThenKept(i, j) /\ OpcodeAt(i) = 72 /\ OpcodeAt(j) = 104) =>
            /\ StateAt(j).accumulator = StateAt(i - 1).accumulator
            /\ StateAt(j).stack = StateAt(i - 1).stack
            /\ Bit(StateAt(j).flags, 1)
                 = (IF StateAt(j).accumulator = 0 THEN 1 ELSE 0)
            /\ Bit(StateAt(j).flags, 7) = Bit(StateAt(j).accumulator, 7)

\* LDA #$40; PHA; LDA #$00; PLA: A is 0x40 again and Z is clear
C14_Witness ==
    /\ Len(trace) >= 4
    /\ LET j == Len(trace)
       IN  /\ PushedThenKept(j - 2, j)
           /\ OpcodeAt(j - 2) = 72 /\ OpcodeAt(j) = 104
           /\ StateAt(j - 3).accumulator = 64
           /\ StateAt(j - 1).accumulator = 0
           /\ Bit(StateAt(j - 1).flags, 1) = 1
    /\ accumulator = 64 /\ Bit(flags, 1) = 0 /\ stack = 253

\* ------------------------------------------------------------------------
\* C15: PHP pushes P with bit 4 (B) set and leaves P as it is; a PLP that
\* follows with SP and the pushed byte as PHP left them sets P to the P
\* before the PHP with bit 5 (U) set and bit 4 (B) clear, and SP to the SP
\* before the PHP.
\* ------------------------------------------------------------------------
WithBreak(p) == p + 16 * (1 - Bit(p, 4))

Pulled(p) == p + 32 * (1 - Bit(p, 5)) - 16 * Bit(p, 4)

C15_PushPullFlags ==
    /\ \A i \in Calls :
          (StepAt(i) /\ OpcodeAt(i) = 8) =>
              /\ MemGet(StateAt(i).memory, 256 + StateAt(i - 1).stack)
                   = WithBreak(StateAt(i - 1).flags)
              /\ StateAt(i).flags = StateAt(i - 1).flags
    /\ \A i \in Calls, j \in Calls :
          (PushedThenKept(i, j) /\ OpcodeAt(i) = 8 /\ OpcodeAt(j) = 40) =>
              /\ StateAt(j).flags = Pulled(StateAt(i - 1).flags)
              /\ StateAt(j).stack = StateAt(i - 1).stack

\* PHP; LDA #$80; SEC; PLP: 0x34 is pushed, N and C get set, and PLP gives
\* P = 0x24 again
C15_Witness ==
    /\ Len(trace) >= 4
    /\ LET j == Len(trace)
       IN  /\ PushedThenKept(j - 3, j)
           /\ OpcodeAt(j - 3) = 8 /\ OpcodeAt(j) = 40
           /\ StateAt(j - 4).flags = 36
           /\ MemGet(StateAt(j - 1).memory, 256 + StateAt(j - 4).stack) = 52
           /\ StateAt(j - 1).flags = 165
    /\ flags = 36

\* ------------------------------------------------------------------------
\* C16: every push (PHA, PHP, each byte of JSR and BRK) writes one byte at
\* 0x0100 + SP, inside 0x0100..0x01FF, and then sets SP to (SP - 1) mod 256;
\* every pop sets SP to (SP + 1) mod 256 and then reads 0x0100 + SP. A push
\* at SP = 0 writes 0x0100 and leaves SP = 0xFF; a pop at SP = 0xFF reads
\* 0x0100 and leaves SP = 0.
\* ------------------------------------------------------------------------
\* slot k of the stack, counted down from the SP before the step
Slot(k) == 256 + ((pre.stack - k) % 256)

\* the addresses at which the step changed memory
Written ==
    {a \in DOMAIN memory \cup DOMAIN pre.memory :
        MemGet(memory, a) # MemGet(pre.memory, a)}

PushedPc(v) ==
    /\ MemGet(memory, Slot(0)) = v \div 256
    /\ MemGet(memory, Slot(1)) = v % 256

C16_StackSlots ==
    Stepped =>
        /\ (Opcode = 72) =>
              /\ Written \subseteq {Slot(0)}
              /\ MemGet(memory, Slot(0)) = pre.accumulator
              /\ stack = (pre.stack - 1) % 256
        /\ (Opcode = 8) =>
              /\ Written \subseteq {Slot(0)}
              /\ MemGet(memory, Slot(0)) = WithBreak(pre.flags)
              /\ stack = (pre.stack - 1) % 256
        /\ (Opcode = 32) =>
              /\ Written \subseteq {Slot(0), Slot(1)}
              /\ PushedPc((pre.pc + 2) % 65536)
              /\ stack = (pre.stack - 2) % 256
        /\ (Opcode = 0) =>
              /\ Written \subseteq {Slot(0), Slot(1), Slot(2)}
              /\ PushedPc((pre.pc + 1) % 65536)
              /\ MemGet(memory, Slot(2)) = flags
              /\ stack = (pre.stack - 3) % 256
        /\ (Opcode = 104) =>
              /\ stack = (pre.stack + 1) % 256
              /\ accumulator = MemGet(pre.memory, 256 + stack)
              /\ memory = pre.memory
        /\ (Opcode = 40) =>
              /\ stack = (pre.stack + 1) % 256
              /\ flags = Pulled(MemGet(pre.memory, 256 + stack))
              /\ memory = pre.memory
        /\ (Opcode = 96) =>
              /\ stack = (pre.stack + 2) % 256
              /\ memory = pre.memory
        /\ (Opcode = 64) =>
              /\ stack = (pre.stack + 3) % 256
              /\ flags = Pulled(MemGet(pre.memory, 256 + ((pre.stack + 1) % 256)))
              /\ memory = pre.memory

\* LDX #0; TXS; PHA; PLA: the push at SP = 0 writes 0x5A over the 0xA3 at
\* 0x0100 and leaves SP = 0xFF, the pop at SP = 0xFF reads it and leaves
\* SP = 0
C16_Witness ==
    /\ Len(trace) >= 3
    /\ LET j == Len(trace)
       IN  /\ StepsBetween(j - 3, j)
           /\ OpcodeAt(j - 1) = 72 /\ OpcodeAt(j) = 104
           /\ StateAt(j - 2).stack = 0
           /\ MemGet(StateAt(j - 2).memory, 256) = 163
           /\ StateAt(j - 1).stack = 255
           /\ MemGet(StateAt(j - 1).memory, 256) = 90
           /\ Written = {}
    /\ stack = 0 /\ accumulator = 90

\* ------------------------------------------------------------------------
\* C17: JSR at address p with target t pushes (p + 2) mod 2^16 and sets
\* PC = t; an RTS executed with SP and the two pushed bytes as JSR left them
\* sets PC = (p + 3) mod 2^16 and SP to the SP before the JSR.
\* ------------------------------------------------------------------------
\* call i is a JSR and call j, a later step, finds SP and both pushed bytes
\* as the JSR left them
CalledThenKept(i, j) ==
    /\ PushedThenKept(i, j)
    /\ OpcodeAt(i) = 32
    /\ MemGet(StateAt(j - 1).memory, 256 + ((StateAt(i - 1).stack - 1) % 256))
         = MemGet(StateAt(i).memory, 256 + ((StateAt(i - 1).stack - 1) % 256))

C17_CallAndReturn ==
    /\ (Stepped /\ Opcode = 32) =>
          /\ PushedPc((pre.pc + 2) % 65536)
          /\ pc = Operand1 + 256 * Operand2
    /\ \A i \in Calls, j \in Calls :
          (CalledThenKept(i, j) /\ OpcodeAt(j) = 96) =>
              /\ StateAt(j).pc = (StateAt(i - 1).pc + 3) % 65536
              /\ StateAt(j).stack = StateAt(i - 1).stack

\* ------------------------------------------------------------------------
\* C18: for every operand byte zp and every X, Y, the effective address of
\* ZeropageX mode is (zp + X) mod 256 and of ZeropageY mode (zp + Y) mod 256,
\* always inside 0x0000..0x00FF: LDA $FF,X with X = 1 loads memory[0x0000],
\* not memory[0x0100].
\* ------------------------------------------------------------------------
\* the table entry of the opcode the step fetched
Fetched == instructions[Opcode + 1]

\* the machine once step() has consumed the opcode byte
AfterFetch == [pre EXCEPT !.pc = toU16(@ + 1)]

ZeropageIndexed ==
    /\ Stepped
    /\ Fetched.function # "null"
    /\ Fetched.addressMode \in {"ZeropageX", "ZeropageY"}

ZeropageEffective ==
    IF Fetched.addressMode = "ZeropageX"
    THEN (Operand1 + pre.indexX) % 256
    ELSE (Operand1 + pre.indexY) % 256

C18_ZeropageIndexedWraps ==
    ZeropageIndexed =>
        /\ getTarget(AfterFetch, Fetched.addressMode, 0).t
             = ValueStore("Memory", ZeropageEffective)
        /\ ZeropageEffective \in 0..255
        /\ Opcode = 181 => accumulator = MemGet(pre.memory, ZeropageEffective)
        /\ Opcode = 180 => indexY = MemGet(pre.memory, ZeropageEffective)
        /\ Opcode = 182 => indexX = MemGet(pre.memory, ZeropageEffective)
        /\ Opcode = 149 =>
              memory = MemSet(pre.memory, ZeropageEffective, pre.accumulator)
        /\ Opcode = 148 =>
              memory = MemSet(pre.memory, ZeropageEffective, pre.indexY)
        /\ Opcode = 150 =>
              memory = MemSet(pre.memory, ZeropageEffective, pre.indexX)

\* LDA $FF,X with X = 1 has loaded memory[0x0000], which differs from
\* memory[0x0100]
C18_Witness ==
    /\ ZeropageIndexed
    /\ Opcode = 181
    /\ Operand1 = 255
    /\ pre.indexX = 1
    /\ accumulator = MemGet(pre.memory, 0)
    /\ accumulator # MemGet(pre.memory, 256)

\* ------------------------------------------------------------------------
\* C19: for every operand byte zp and every X, Y, IndirectX mode's effective
\* address is memory[(zp + X) mod 256] + 256 * memory[(zp + X + 1) mod 256]
\* and IndirectY mode's is (memory[zp] + 256 * memory[(zp + 1) mod 256] + Y)
\* mod 2^16; both pointer bytes are read from the zero page, never from
\* 0x0100.
\* ------------------------------------------------------------------------
IndirectIndexed ==
    /\ Stepped
    /\ Fetched.function # "null"
    /\ Fetched.addressMode \in {"IndirectX", "IndirectY"}

\* the 16-bit pointer whose low byte is at zero-page address a mod 256
ZeropagePointer(a) ==
    MemGet(pre.memory, a % 256) + 256 * MemGet(pre.memory, (a + 1) % 256)

IndirectEffective ==
    IF Fetched.addressMode = "IndirectX"
    THEN ZeropagePointer(Operand1 + pre.indexX)
    ELSE (ZeropagePointer(Operand1) + pre.indexY) % 65536

C19_IndirectIndexedPointer ==
    IndirectIndexed =>
        /\ getTarget(AfterFetch, Fetched.addressMode, 0).t
             = ValueStore("Memory", IndirectEffective)
        /\ Opcode \in {161, 177} =>
              accumulator = MemGet(pre.memory, IndirectEffective)
        /\ Opcode \in {129, 145} =>
              memory = MemSet(pre.memory, IndirectEffective, pre.accumulator)

\* STA ($FF),Y has stored A through the pointer whose low byte is at 0x00FF
\* and whose high byte is at 0x0000, where 0x0000 and 0x0100 hold different
\* bytes
C19_Witness ==
    /\ IndirectIndexed
    /\ Opcode = 145
    /\ Operand1 = 255
    /\ pre.indexY > 0
    /\ MemGet(pre.memory, 0) # MemGet(pre.memory, 256)
    /\ MemGet(memory, (MemGet(pre.memory, 255) + 256 * MemGet(pre.memory, 0)
                         + pre.indexY) % 65536) = pre.accumulator
    /\ pre.accumulator # 0

\* ------------------------------------------------------------------------
\* C20: for every byte v, after LDA #v (LDX #v into X, LDY #v into Y) the
\* destination register equals v, Z = (v = 0), N = (v >= 128), and flags C,
\* V, I, D, the other registers, SP and memory are unchanged.
\* ------------------------------------------------------------------------
LoadImmediate == Stepped /\ Opcode \in {169, 162, 160}

C20_LoadImmediate ==
    LoadImmediate =>
        /\ accumulator = (IF Opcode = 169 THEN Operand1 ELSE pre.accumulator)
        /\ indexX = (IF Opcode = 162 THEN Operand1 ELSE pre.indexX)
        /\ indexY = (IF Opcode = 160 THEN Operand1 ELSE pre.indexY)
        /\ Bit(flags, Zero) = 1 <=> Operand1 = 0
        /\ Bit(flags, Negative) = 1 <=> Operand1 >= 128
        /\ \A f \in {Carry, Overflow, InterruptOff, Decimal} :
              Bit(flags, f) = Bit(pre.flags, f)
        /\ stack = pre.stack
        /\ memory = pre.memory

\* LDX #5 with N, Z, C and V set before: X = 5, Z and N cleared, C and V
\* still set
C20_Witness ==
    /\ LoadImmediate
    /\ Opcode = 162 /\ Operand1 = 5
    /\ \A f \in {Negative, Zero, Carry, Overflow} : Bit(pre.flags, f) = 1
    /\ indexX = 5
    /\ Bit(flags, Zero) = 0 /\ Bit(flags, Negative) = 0
    /\ Bit(flags, Carry) = 1 /\ Bit(flags, Overflow) = 1

\* ------------------------------------------------------------------------
\* C21: for every register value r (A for CMP, X for CPX, Y for CPY) and
\* operand byte m, the compare sets Z = (r = m), C = (r >= m as unsigned
\* bytes) and N = bit 7 of (r - m) mod 256, and leaves A, X, Y, SP, memory
\* and flags V, I, D unchanged.
\* ------------------------------------------------------------------------
Compared == Stepped /\ Fetched.function \in {"oCMP", "oCPX", "oCPY"}

CompareRegister ==
    IF Fetched.function = "oCMP" THEN pre.accumulator
    ELSE IF Fetched.function = "oCPX" THEN pre.indexX
    ELSE pre.indexY

\* the compare's outcome for operand byte m
ComparedWith(m) ==
    /\ Bit(flags, Zero) = 1 <=> CompareRegister = m
    /\ Bit(flags, Carry) = 1 <=> CompareRegister >= m
    /\ Bit(flags, Negative) = Bit((CompareRegister - m) % 256, 7)

C21_Compare ==
    Compared =>
        /\ IF Fetched.addressMode = "Immediate"
           THEN ComparedWith(Operand1)
           ELSE \E junk \in Junks(pre) :
                   ComparedWith(MemGet(pre.memory,
                       getTarget(AfterFetch, Fetched.addressMode, junk).t.value))
        /\ accumulator = pre.accumulator
        /\ indexX = pre.indexX
        /\ indexY = pre.indexY
        /\ stack = pre.stack
        /\ memory = pre.memory
        /\ \A f \in {Overflow, InterruptOff, Decimal} :
              Bit(flags, f) = Bit(pre.flags, f)

\* CPX #$80 with X = 1: Z clear, C clear, N = bit 7 of 0x81
C21_Witness ==
    /\ Compared
    /\ Opcode = 224 /\ Operand1 = 128 /\ pre.indexX = 1
    /\ Bit(flags, Zero) = 0 /\ Bit(flags, Carry) = 0
    /\ Bit(flags, Negative) = 1

\* ------------------------------------------------------------------------
\* C22: a 16-bit push of v stores v's high byte at 0x0100 + SP and its low
\* byte at 0x0100 + ((SP - 1) mod 256); a 16-bit pop takes the first byte
\* popped as the low byte and the second as the high byte, so a 16-bit pop
\* right after a 16-bit push of v returns v and restores SP, whichever of
\* the two pop() operands in pop2 is evaluated first.
\* ------------------------------------------------------------------------
\* the word whose low byte is k slots above SP and whose high byte is k + 1
\* slots above it, before the step
StackWord(k) ==
    MemGet(pre.memory, 256 + ((pre.stack + k) % 256))
    + 256 * MemGet(pre.memory, 256 + ((pre.stack + k + 1) % 256))

WordSamples == {0, 1, 255, 256, 4660, 65280, 65535}

C22_Push2Pop2 ==
    /\ (Stepped /\ Opcode = 32) => PushedPc((pre.pc + 2) % 65536)
    /\ (Stepped /\ Opcode = 0) => PushedPc((pre.pc + 1) % 65536)
    /\ (Stepped /\ Opcode = 96) =>
          /\ pc = (StackWord(1) + 1) % 65536
          /\ stack = (pre.stack + 2) % 256
    /\ (Stepped /\ Opcode = 64) =>
          /\ pc = StackWord(2)
          /\ stack = (pre.stack + 3) % 256
    /\ \A v \in WordSamples, leftFirst \in BOOLEAN :
          LET p == pop2(push2(self, v), leftFirst)
          IN  p.v = v /\ p.s.stack = stack

\* ------------------------------------------------------------------------
\* C23: for every documented opcode whose operation is not JMP, JSR, RTS,
\* RTI or a taken branch, one step() sets PC := (PC + 1 + n) mod 2^16, n
\* being the operand length of the opcode's addressing mode: 0 for Implicit
\* and Accumulator, 1 for Immediate, Zeropage, ZeropageX, ZeropageY,
\* IndirectX, IndirectY and Relative (untaken branch), 2 for Absolute,
\* AbsoluteX and AbsoluteY.
\* ------------------------------------------------------------------------
OperandLength(mode) ==
    IF mode \in {"Implicit", "Accumulator"} THEN 0
    ELSE IF mode \in {"Absolute", "AbsoluteX", "AbsoluteY"} THEN 2
    ELSE 1

\* the step ran a documented opcode that does not transfer control
RanStraight ==
    /\ Stepped
    /\ Fetched.function \notin {"null", "oJMP", "oJSR", "oRTS", "oRTI"}
    /\ ~BranchTaken

C23_PcAdvance ==
    RanStraight =>
        pc = (pre.pc + 1 + OperandLength(Fetched.addressMode)) % 65536

\* an untaken branch whose operand is the last byte of memory: PC wraps to 0
C23_Witness ==
    /\ RanStraight
    /\ Fetched.addressMode = "Relative"
    /\ pre.pc = 65534
    /\ pc = 0

\* ------------------------------------------------------------------------
\* C24: for every operand byte v and carry-in c, ROL writes
\* ((v << 1) mod 256) | c back through the operand handle and sets C = bit 7
\* of v; ROR writes (v >> 1) | (c << 7) and sets C = bit 0 of v; both set Z
\* and N from the written result. ROL followed by ROR on the same operand
\* restores the operand and C.
\* ------------------------------------------------------------------------
Rotated == Stepped /\ Fetched.function \in {"oROL", "oROR"}

\* the rotate read v from its operand and left w in it
RotatedFromTo(v, w) ==
    /\ IF Fetched.function = "oROL"
       THEN /\ w = ((v * 2) % 256) + Bit(pre.flags, Carry)
            /\ Bit(flags, Carry) = Bit(v, 7)
       ELSE /\ w = (v \div 2) + 128 * Bit(pre.flags, Carry)
            /\ Bit(flags, Carry) = Bit(v, 0)
    /\ Bit(flags, Zero) = 1 <=> w = 0
    /\ Bit(flags, Negative) = Bit(w, 7)

\* the effective address of call i, a step() on a memory operand
EffectiveAt(i) ==
    getTarget([StateAt(i - 1) EXCEPT !.pc = toU16(@ + 1)],
              instructions[OpcodeAt(i) + 1].addressMode, 0).t.value

\* calls i and i + 1 are ROL and ROR on the same operand
RolThenRor(i) ==
    /\ i + 1 \in Calls
    /\ StepAt(i) /\ StepAt(i + 1)
    /\ instructions[OpcodeAt(i) + 1].function = "oROL"
    /\ instructions[OpcodeAt(i + 1) + 1].function = "oROR"
    /\ instructions[OpcodeAt(i) + 1].addressMode
         = instructions[OpcodeAt(i + 1) + 1].addressMode
    /\ \/ instructions[OpcodeAt(i) + 1].addressMode = "Accumulator"
       \/ EffectiveAt(i) = EffectiveAt(i + 1)

C24_Rotate ==
    /\ Rotated =>
          IF Fetched.addressMode = "Accumulator"
          THEN /\ RotatedFromTo(pre.accumulator, accumulator)
               /\ memory = pre.memory
          ELSE \E junk \in Junks(pre) :
                  LET ea == getTarget(AfterFetch, Fetched.addressMode, junk).t.value
                  IN  /\ RotatedFromTo(MemGet(pre.memory, ea), MemGet(memory, ea))
                      /\ Written \subseteq {ea}
                      /\ accumulator = pre.accumulator
    /\ \A i \in Calls :
          RolThenRor(i) =>
              /\ StateAt(i + 1).accumulator = StateAt(i - 1).accumulator
              /\ StateAt(i + 1).memory = StateAt(i - 1).memory
              /\ Bit(StateAt(i + 1).flags, Carry) = Bit(StateAt(i - 1).flags, Carry)

\* SEC; ROL $0607; ROR $0607 on the byte 0x80: ROL left 0x01 there with C
\* set, ROR put 0x80 back with C set
C24_Witness ==
    /\ Len(trace) = 4
    /\ RolThenRor(3)
    /\ OpcodeAt(3) = 46
    /\ Bit(StateAt(2).flags, Carry) = 1
    /\ MemGet(StateAt(2).memory, 1543) = 128
    /\ MemGet(StateAt(3).memory, 1543) = 1
    /\ MemGet(memory, 1543) = 128
    /\ Bit(flags, Carry) = 1

\* ------------------------------------------------------------------------
\* C25: for each of the 256 opcode bytes and every machine state, step()
\* never writes through an Immediate or Implicit operand handle and never
\* reads an Implicit one: the assertions in ValueStore::write and
\* ValueStore::read hold for every (operation, addressing mode) pair of the
\* decoder table.
\* ------------------------------------------------------------------------
C25_HandleAssertions == ~assertFailed

\* the operations that read, and that write, through their handle
HandleReaders ==
    {"oADC", "oAND", "oASL", "oBIT", "oCMP", "oCPX", "oCPY", "oDEC", "oEOR",
     "oINC", "oLDA", "oLDX", "oLDY", "oLSR", "oORA", "oROL", "oROR", "oSBC"}

HandleWriters ==
    {"oASL", "oDEC", "oINC", "oLSR", "oROL", "oROR", "oSTA", "oSTX", "oSTY"}

\* a step has read and written through an Accumulator handle, and the
\* assertions held
C25_Witness ==
    /\ Stepped
    /\ Fetched.function \in HandleReaders \cap HandleWriters
    /\ Fetched.addressMode = "Accumulator"
    /\ accumulator # pre.accumulator
    /\ ~assertFailed

\* ------------------------------------------------------------------------
\* C26: for every machine state, PC = 0xFFFE and PC = 0xFFFF included, and
\* every opcode, each memory index read or written during step() lies in
\* 0..65535: fetches that run past 0xFFFF wrap to 0x0000, so the high byte
\* of a two-byte Absolute operand whose low byte is at 0xFFFF is fetched from
\* 0x0000.
\* ------------------------------------------------------------------------
\* the step fetched a two-byte operand whose low byte is at 0xFFFF
OperandAcrossEnd ==
    /\ Stepped
    /\ Fetched.function # "null"
    /\ Fetched.addressMode \in {"Absolute", "AbsoluteX", "AbsoluteY", "Indirect"}
    /\ pre.pc = 65534

C26_IndicesInRange ==
    /\ ~outOfRange
    /\ (OperandAcrossEnd /\ Opcode = 76) =>
          pc = MemGet(pre.memory, 65535) + 256 * MemGet(pre.memory, 0)
    /\ (OperandAcrossEnd /\ Opcode = 173) =>
          accumulator = MemGet(pre.memory,
              MemGet(pre.memory, 65535) + 256 * MemGet(pre.memory, 0))
    /\ (Stepped /\ Opcode = 169 /\ pre.pc = 65535) =>
          accumulator = MemGet(pre.memory, 0) /\ pc = 1
====
